---- MODULE Spec2Model ----
(***************************************************************************)
(* Model of progress-bar.py: the ProgressBar class (constructor, property  *)
(* setters, update) together with the collaborators it drives: the         *)
(* perf_counter clock, the cursor module and standard output.              *)
(*                                                                         *)
(* Numbers.  Python computes the progress in binary64; here it is the      *)
(* exact rational num / (den * 10^exp), kept in lowest terms, so that      *)
(* ==, < and > on it are the comparisons of the code.  Times are whole     *)
(* seconds of the perf_counter clock; a call reads one clock value.        *)
(* Python values that are type-checked carry their type: a value is a      *)
(* record [type, n, s] (n the number, s the text).                         *)
(***************************************************************************)
EXTENDS Integers, Sequences, FiniteSets, TLC

VARIABLES
    phase,      \* caller position: "new" (not constructed), "live", "failed"
    args,       \* the arguments handed to ProgressBar(...)
    total,      \* self._total
    text,       \* self._text
    width,      \* self._width
    progress,   \* self._progress
    start,      \* self._start
    LAST,       \* self.LAST
    clock,      \* perf_counter()
    cursorShown,\* terminal cursor visibility (cursor.show / cursor.hide)
    emitted,    \* lines printed by the most recent call
    raised,     \* exception propagated by the most recent call, or "none"
    calls       \* arguments of the update calls made so far, in order

vars == <<phase, args, total, text, width, progress, start, LAST, clock,
          cursorShown, emitted, raised, calls>>

----------------------------------------------------------------------------
(* Bounds of the exploration *)

MaxTotal == 3
MaxWidth == 1
MaxClock == 30
MaxCalls == 2

----------------------------------------------------------------------------
(* Python values *)

NoneV == [type |-> "None", n |-> 0, s |-> ""]
PyInt(k) == [type |-> "int", n |-> k, s |-> ""]
PyFloat(k) == [type |-> "float", n |-> k, s |-> ""]
PyStr(t) == [type |-> "str", n |-> 0, s |-> t]

Texts == {"Progress", ""}
TotalArgs == {PyInt(k) : k \in {-1} \cup (0..MaxTotal)} \cup {PyFloat(2), PyStr("10"), NoneV}
TextArgs == {PyStr(t) : t \in Texts} \cup {PyInt(7), NoneV}
WidthArgs == {NoneV} \cup {PyInt(k) : k \in 0..MaxWidth} \cup {PyFloat(2), PyStr("10")}
Currents == (-1)..(MaxTotal + 1)
\* seconds that may pass between two calls (clock readings 0, 10, 20, 25, 30)
Ticks == {10, 25}

----------------------------------------------------------------------------
(* Exact arithmetic *)

Abs(a) == IF a < 0 THEN 0 - a ELSE a
Max(a, b) == IF a >= b THEN a ELSE b

RECURSIVE Gcd(_, _)
Gcd(a, b) == IF b = 0 THEN a ELSE Gcd(b, a % b)

\* round(a / b) for b > 0, ties to the even neighbour (Python's round)
RoundHalfEven(a, b) ==
    LET q == a \div b
        r == a - q * b
    IN  IF 2 * r < b THEN q
        ELSE IF 2 * r > b THEN q + 1
        ELSE IF q % 2 = 0 THEN q ELSE q + 1

\* Numbers above 2^31 are kept as three limbs <<high, mid, low>> in base 10^6.
Base == 10 ^ 6
Big(k) == <<0, 0, k>>
BigMulSmall(b, k) ==
    LET t3 == b[3] * k
        t2 == b[2] * k + (t3 \div Base)
        t1 == b[1] * k + (t2 \div Base)
    IN  <<t1, t2 % Base, t3 % Base>>
BigAddSmall(b, k) ==
    LET t3 == b[3] + k
        t2 == b[2] + (t3 \div Base)
        t1 == b[1] + (t2 \div Base)
    IN  <<t1, t2 % Base, t3 % Base>>
BigDivSmall(b, k) ==
    LET q1 == b[1] \div k
        r1 == b[1] % k
        q2 == (r1 * Base + b[2]) \div k
        r2 == (r1 * Base + b[2]) % k
        q3 == (r2 * Base + b[3]) \div k
        r3 == (r2 * Base + b[3]) % k
    IN  [q |-> <<q1, q2, q3>>, r |-> r3]

----------------------------------------------------------------------------
(* The progress value *)

Ratio(a, b) == [num |-> a, den |-> b, exp |-> 0]
Epsilon == [num |-> 1, den |-> 1, exp |-> 12]

\* current / total for total # 0
Divide(current, tot) ==
    LET sn == IF tot < 0 THEN 0 - current ELSE current
        sd == Abs(tot)
        g == Gcd(Abs(sn), sd)
    IN  Ratio(sn \div g, sd \div g)

IsNegative(p) == p.num < 0
IsZero(p) == p.num = 0
IsOne(p) == p.exp = 0 /\ p.num = p.den
ExceedsOne(p) == p.exp = 0 /\ p.num > p.den
\* variant: the in-progress branch taken with <= 1 in place of < 1
BelowOneInclusive(p) == ~ExceedsOne(p)
BelowOne(p) == ~IsOne(p) /\ ~ExceedsOne(p)

\* round(self._progress * 100, 4), in units of 0.0001 percent
Round4(p) == RoundHalfEven(p.num * (10 ^ 6), p.den)
\* percentage if percentage <= 100.00 else 100.00
ClampPercentage(pct4) == IF pct4 <= 100 * (10 ^ 4) THEN pct4 ELSE 100 * (10 ^ 4)
\* f'{percentage:.2f}', in hundredths of a percent
Format2f(pct4) == RoundHalfEven(pct4, 100)
\* round(self._progress * self._width)
CompletedCells(p, w) == RoundHalfEven(p.num * w, p.den)
\* SYMBOL * k: the number of glyphs printed (none for k <= 0)
Repeat(k) == Max(k, 0)

\* variant: negative progress floored at 0 in place of 1e-12
BoundaryAdjustZero(p) == IF IsNegative(p) THEN Ratio(0, 1) ELSE p
\* variant: the floor applied with <= 0 in place of < 0
BoundaryAdjustInclusive(p) == IF p.num <= 0 THEN Epsilon ELSE p
\* if self._progress < 0: self._progress = 1e-12
BoundaryAdjust(p) == IF IsNegative(p) THEN Epsilon ELSE p

----------------------------------------------------------------------------
(* ETA *)

\* numerator of 1 - p over the denominator of p
OneMinusNum(p) ==
    IF p.exp = 0 THEN Big(p.den - p.num)
    ELSE <<p.den - 1, Base - 1, Base - p.num>>

\* variant: the estimate without its constant second
EtaSecondsNoBias(elapsed, p) ==
    BigDivSmall(BigMulSmall(OneMinusNum(p), elapsed), p.num).q
\* int(eta) for eta = (elapsed / p) * (1 - p) + 1, with 0 < p <= 1
EtaSeconds(elapsed, p) ==
    BigAddSmall(BigDivSmall(BigMulSmall(OneMinusNum(p), elapsed), p.num).q, 1)

\* f"{str(int(eta // 60)).zfill(2)}:{str(int(eta % 60)).zfill(2)}"
EtaFormat(eta) ==
    LET d == BigDivSmall(eta, 60) IN [mm |-> d.q, ss |-> d.r]

----------------------------------------------------------------------------
(* Rendering *)

Icon(p) == IF IsOne(p) THEN "check" ELSE "@"
Colors(p) ==
    [text |-> IF IsOne(p) THEN "GREEN" ELSE "RED",
     progress |-> IF IsOne(p) THEN "GREEN" ELSE "YELLOW",
     remaining |-> "BLACK"]

\* variant: show and hide exchanged
CursorAfterSwapped(p) == ~IsOne(p)
\* variant: the cursor never hidden
CursorAfterNoHide(p) == TRUE
\* cursor.show() if self._progress == 1 else cursor.hide()
CursorAfter(p) == IsOne(p)

\* the print call taken: the ETA line ends in '\r', the Elapsed line in '\n'
Line(p, label, completed, remaining, pct4, elapsed) ==
    [icon |-> Icon(p),
     colors |-> Colors(p),
     label |-> label,
     completed |-> completed,
     remaining |-> remaining,
     filled |-> Repeat(completed),
     empty |-> Repeat(remaining),
     pct |-> Format2f(pct4),
     tail |-> IF BelowOne(p) THEN "ETA" ELSE "Elapsed",
     eta |-> EtaFormat(EtaSeconds(elapsed, p)),
     elapsed |-> elapsed,
     end |-> IF BelowOne(p) THEN "\r" ELSE "\n"]

----------------------------------------------------------------------------
(* Construction *)

TotalSetterOK(value) == value.type = "int"
TextSetterOK(value) == value.type = "str"
\* variant: the width check without its None case
WidthSetterNoNone(value) == value.type = "int"
WidthSetterOK(value) == value.type = "None" \/ value.type = "int"
WidthStored(value, txt) ==
    IF value.type = "None" THEN PyInt(80 - (Len(txt.s) + 15)) ELSE value

Init ==
    /\ phase = "new"
    /\ args = [total |-> NoneV, text |-> NoneV, width |-> NoneV]
    /\ total = NoneV
    /\ text = NoneV
    /\ width = NoneV
    /\ progress = NoneV
    /\ start = NoneV
    /\ LAST = NoneV
    /\ clock = 0
    /\ cursorShown = TRUE
    /\ emitted = <<>>
    /\ raised = "none"
    /\ calls = <<>>

\* pb = ProgressBar(t, x, w): the setters run in the order total, text, width;
\* the first one that raises leaves no object behind.
Construct(t, x, w) ==
    /\ phase = "new"
    /\ args' = [total |-> t, text |-> x, width |-> w]
    /\ IF TotalSetterOK(t) /\ TextSetterOK(x) /\ WidthSetterOK(w)
       THEN /\ phase' = "live"
            /\ total' = t
            /\ text' = x
            /\ width' = WidthStored(w, x)
            /\ progress' = Epsilon
            /\ raised' = "none"
       ELSE /\ phase' = "failed"
            /\ raised' = "ValueError"
            /\ UNCHANGED <<total, text, width, progress>>
    /\ UNCHANGED <<start, LAST, clock, cursorShown, emitted, calls>>

----------------------------------------------------------------------------
(* update *)

\* variant: the start time taken on every call
StartAlways(s, now) == PyFloat(now)
\* if self._start is None: self._start = perf_counter()
StartAfter(s, now) == IF s = NoneV THEN PyFloat(now) ELSE s

Update(current) ==
    /\ phase = "live"
    /\ Len(calls) < MaxCalls
    /\ calls' = Append(calls, current)
    /\ start' = StartAfter(start, clock)
    /\ IF total.n = 0
       THEN \* current / 0
            /\ raised' = "ZeroDivisionError"
            /\ emitted' = <<>>
            /\ UNCHANGED <<progress, cursorShown, LAST>>
       ELSE LET p == Divide(current, total.n)
                percentage == ClampPercentage(Round4(p))
                completed == CompletedCells(p, width.n)
                remaining == width.n - completed
                stored == BoundaryAdjust(p)
                elapsed == clock - StartAfter(start, clock).n
            IN  IF ExceedsOne(p)
                THEN \* return None
                     /\ progress' = p
                     /\ raised' = "none"
                     /\ emitted' = <<>>
                     /\ UNCHANGED <<cursorShown, LAST>>
                ELSE /\ progress' = stored
                     /\ cursorShown' = CursorAfter(stored)
                     /\ IF IsZero(stored)
                        THEN \* elapsed / 0.0
                             /\ raised' = "ZeroDivisionError"
                             /\ emitted' = <<>>
                             /\ UNCHANGED LAST
                        ELSE /\ raised' = "none"
                             /\ emitted' = <<Line(stored, text.s, completed,
                                                  remaining, percentage, elapsed)>>
                             /\ LAST' = PyFloat(clock)
    /\ UNCHANGED <<phase, args, total, text, width, clock>>

\* time passes between calls
Tick(d) ==
    /\ clock + d <= MaxClock
    /\ clock' = clock + d
    /\ UNCHANGED <<phase, args, total, text, width, progress, start, LAST,
                   cursorShown, emitted, raised, calls>>

Next ==
    \/ \E t \in TotalArgs, x \in TextArgs, w \in WidthArgs : Construct(t, x, w)
    \/ \E current \in Currents : Update(current)
    \/ \E d \in Ticks : Tick(d)

Spec == Init /\ [][Next]_vars

----------------------------------------------------------------------------
(* Vocabulary of the properties *)

Live == phase = "live"
NCalls == Len(calls)
Current == calls[Len(calls)]
UpdateStep == calls' # calls
CompletionLine(ln) ==
    /\ ln.icon = "check"
    /\ ln.colors.text = "GREEN"
    /\ ln.colors.progress = "GREEN"
    /\ ln.tail = "Elapsed"
    /\ ln.end = "\n"
InProgressLine(ln) ==
    /\ ln.icon = "@"
    /\ ln.colors.text = "RED"
    /\ ln.colors.progress = "YELLOW"
    /\ ln.tail = "ETA"
    /\ ln.end = "\r"
\* calls is <<0, 1, ..., k>> for some k <= n
NormalRun(cs, n) == Len(cs) <= n + 1 /\ \A j \in 1..Len(cs) : cs[j] = j - 1

----------------------------------------------------------------------------
(* C1 *)

\* C1 (as claimed): in a normal run update(0), update(1), ..., update(N) on
\* a tracker with total = N > 0, every call returns without error and prints
\* a line, the displayed percentage never decreases from one call to the
\* next, and the completion line is printed by the call with i = N and by
\* no other.
C1_NormalRun ==
    [][(UpdateStep /\ total.n > 0 /\ NormalRun(calls', total.n)) =>
          /\ raised' = "none"
          /\ Len(emitted') = 1
          /\ (emitted # <<>> => emitted'[1].pct >= emitted[1].pct)
          /\ (CompletionLine(emitted'[1]) <=> Current' = total.n)]_vars

----------------------------------------------------------------------------
(* C2 *)

\* C2: a call of update that renders prints exactly one line; it is the
\* completion line (done glyph, done colours, Elapsed segment, newline) when
\* current = total and the in-progress line (in-progress glyph, ETA segment,
\* carriage return) otherwise; and the start time is set by then, also when
\* the completing call is the first one.
C2_LineKind ==
    (Live /\ NCalls > 0 /\ emitted # <<>>) =>
        /\ Len(emitted) = 1
        /\ start # NoneV
        /\ IF Current = total.n
           THEN CompletionLine(emitted[1])
           ELSE InProgressLine(emitted[1])

C2_Witness ==
    /\ Live
    /\ total.n = 1
    /\ calls = <<1>>
    /\ Len(emitted) = 1
    /\ emitted[1].end = "\n"
    /\ start = PyFloat(clock)

----------------------------------------------------------------------------
(* C3 *)

\* C3: on a tracker with total > 0, an update that prints an in-progress
\* line leaves the cursor hidden, an update that prints the completion line
\* leaves it shown, no other update turns the cursor on, and an update with
\* current > total leaves the cursor as it was.
C3_Cursor ==
    [][(UpdateStep /\ total.n > 0) =>
          /\ (emitted' # <<>> /\ emitted'[1].end = "\r" => ~cursorShown')
          /\ (emitted' # <<>> /\ emitted'[1].end = "\n" => cursorShown')
          /\ (~(emitted' # <<>> /\ emitted'[1].end = "\n") =>
                 (cursorShown' => cursorShown))
          /\ (Current' > total.n => cursorShown' = cursorShown)]_vars

C3_Witness ==
    /\ Live
    /\ NCalls = 2
    /\ total.n > 0
    /\ 0 < calls[1] /\ calls[1] < total.n
    /\ calls[2] = total.n
    /\ cursorShown
    /\ Len(emitted) = 1
    /\ emitted[1].end = "\n"

----------------------------------------------------------------------------
(* C4 *)

\* C4 (as claimed): on a tracker with total > 0, update(current) with
\* current > total prints nothing, leaves the cursor as it was and leaves the
\* stored progress at the value it had before the call.
C4_OvershootNoOp ==
    [][(UpdateStep /\ total.n > 0 /\ Current' > total.n) =>
          /\ emitted' = <<>>
          /\ cursorShown' = cursorShown
          /\ progress' = progress]_vars

----------------------------------------------------------------------------
(* C5 *)

\* C5: the start time is None until the first update, the first update sets
\* it to the clock value of that call, and no later update changes it,
\* whatever the arguments.
C5_StartTime ==
    [][/\ (calls = <<>> => start = NoneV)
       /\ (UpdateStep /\ calls = <<>> => start' = PyFloat(clock))
       /\ (start # NoneV => start' = start)]_vars

C5_Witness ==
    /\ Live
    /\ NCalls = 2
    /\ start # NoneV
    /\ LAST # NoneV
    /\ LAST.n > start.n

----------------------------------------------------------------------------
(* C6 *)

----------------------------------------------------------------------------
(* C7 *)

\* C7: construction raises ValueError exactly when total is not an int, text
\* is not a str, or a width other than None is not an int; a failed
\* construction leaves no object; a successful one stores total, text and
\* width as given, the width being 80 - (len(text) + 15) when None was given.
C7_Validation ==
    phase # "new" =>
        LET bad == \/ args.total.type # "int"
                   \/ args.text.type # "str"
                   \/ (args.width # NoneV /\ args.width.type # "int")
        IN  /\ (phase = "failed" <=> bad)
            /\ (phase = "failed" =>
                    /\ raised = "ValueError"
                    /\ total = NoneV /\ text = NoneV /\ width = NoneV
                    /\ progress = NoneV)
            /\ (phase = "live" =>
                    /\ total = args.total
                    /\ text = args.text
                    /\ (args.width # NoneV => width = args.width)
                    /\ (args.width = NoneV =>
                            /\ width.type = "int"
                            /\ width.n + Len(args.text.s) + 15 = 80))

C7_Witness ==
    /\ phase = "failed"
    /\ args.total.type = "int"
    /\ args.text.type = "str"
    /\ args.width.type = "float"
    /\ raised = "ValueError"

----------------------------------------------------------------------------
(* C8 *)

\* C8: on every in-progress line the displayed MM:SS is the whole number of
\* seconds of (elapsed / progress) * (1 - progress) + 1, split as minutes =
\* floor(ETA / 60), without a cap, and seconds = floor(ETA mod 60); with
\* elapsed = 10 and progress = 1/2 it is 00:11.
C8_Eta ==
    (Live /\ emitted # <<>> /\ emitted[1].tail = "ETA") =>
        LET ln == emitted[1]
            e == ln.elapsed
            mm == ln.eta.mm
            ss == ln.eta.ss
            secs == 60 * mm[3] + ss
        IN  /\ e = LAST.n - start.n
            /\ ss \in 0..59
            /\ (progress.exp = 0 =>
                    /\ mm[1] = 0 /\ mm[2] = 0
                    /\ progress.num * secs
                           <= e * (progress.den - progress.num) + progress.num
                    /\ e * (progress.den - progress.num) + progress.num
                           < progress.num * (secs + 1))
            /\ (progress.exp = 12 =>
                    BigAddSmall(BigAddSmall(BigMulSmall(mm, 60), ss), e - 1)
                        = <<e, 0, 0>>)
            /\ (e = 10 /\ progress = Ratio(1, 2) => mm[3] = 0 /\ ss = 11)

C8_Witness ==
    /\ Live
    /\ Len(emitted) = 1
    /\ emitted[1].tail = "ETA"
    /\ emitted[1].elapsed = 10
    /\ progress = Ratio(1, 2)
    /\ emitted[1].eta = [mm |-> <<0, 0, 0>>, ss |-> 11]

----------------------------------------------------------------------------
(* C9 *)

----------------------------------------------------------------------------
(* C10 *)

\* C10: after an update with current = total has printed the completion line
\* and shown the cursor, an update with 0 < current < total prints an
\* in-progress line ending in a carriage return and hides the cursor, and the
\* start time stays the one the first update set.
C10_NotAbsorbing ==
    [][(/\ UpdateStep
        /\ total.n > 0
        /\ calls # <<>>
        /\ Current = total.n
        /\ 0 < Current' /\ Current' < total.n) =>
          /\ Len(emitted) = 1 /\ CompletionLine(emitted[1]) /\ cursorShown
          /\ Len(emitted') = 1 /\ InProgressLine(emitted'[1])
          /\ ~cursorShown'
          /\ start # NoneV
          /\ start' = start]_vars

C10_Witness ==
    /\ Live
    /\ NCalls = 2
    /\ total.n > 0
    /\ calls[1] = total.n
    /\ 0 < calls[2] /\ calls[2] < total.n
    /\ ~cursorShown
    /\ Len(emitted) = 1
    /\ emitted[1].end = "\r"
    /\ start.n < LAST.n

====
